---- MODULE Spec2Model ----
(***************************************************************************)
(* A model of the two utilities of the repository:                         *)
(*   - python/process.py: ImageProcessor (font cache, input validation,    *)
(*     output naming, the filter pipeline with its image handles) and the  *)
(*     JSON entry point process_image_json;                                *)
(*   - native_engine/build_assets.py: compile, zip, clean up.              *)
(* Calls into Pillow, the filesystem and the clock are modelled by their   *)
(* documented effect; a call that can raise does so nondeterministically.  *)
(***************************************************************************)
EXTENDS Integers, Sequences, FiniteSets, TLC

(***************************************************************************)
(* Bounds of the model.                                                    *)
(***************************************************************************)
\* process_image_json is invoked at most MaxCalls times in one behaviour
MaxCalls == 2
\* datetime.now() reads 0..MaxClock (microseconds)
MaxClock == 1
\* _get_font is driven with the sizes MIN_FONT..MIN_FONT+NumSizes-1
NumSizes == 12
\* build_assets is run at most MaxBuilds times on one output directory
MaxBuilds == 2

(***************************************************************************)
(* Program constants.                                                      *)
(***************************************************************************)
\* process.py:71   if len(self._font_cache) > 10
CACHE_LIMIT == 10
\* process.py:167  max(24, min(300, int(height * 0.10)))
MIN_FONT == 24
MAX_FONT == 300
\* process.py:97   %f: the microseconds of the second, 000000..999999
USEC_PER_SEC == 1000000

SUPPORTED_FORMATS == {".png", ".jpg", ".jpeg", ".gif", ".bmp", ".webp", ".tiff"}

font_paths == <<"arial.ttf", "segoeui.ttf">>

VARIABLES
    \* ---- process.py, module and processor state
    PIL_AVAILABLE,   \* the import of Pillow succeeded
    font_cache,      \* ImageProcessor._font_cache: size -> font
    \* ---- environment of process.py
    installed,       \* the font files ImageFont.truetype can load
    clock,           \* what datetime.now() read last
    dirs,            \* output directories that exist
    outfiles,        \* the output files that exist (their paths)
    \* ---- one invocation of process_image_json / process
    pc,              \* position in the invocation
    calls,           \* invocations started so far
    input_path,      \* process's input_path (a Python value)
    output_dir,      \* process's output_dir (a Python value)
    kind,            \* what is at input_path: "none", "file" or "dir"
    imgs,            \* the images opened or created: <<[size, mode, closes]>>
    img,             \* local img: an index of imgs, 0 for None
    new_img,         \* local new_img / bg: an index of imgs, 0 when unset
    original,        \* original_size and original_mode
    output_path,     \* local output_path
    saved,           \* the size of the PNG img.save wrote, <<0, 0>> before
    exc,             \* the exception being handled
    resp,            \* the dict the entry point returns
    raised,          \* the exception that escaped the entry point, or "none"
    fs0,             \* <<dirs, outfiles>> when the invocation started
    prev,            \* the previous successful invocation
    \* ---- build_assets.py
    b_pc,            \* position in build_assets
    builds,          \* runs started so far
    b_input,         \* what input_py is: "missing", "valid", "syntax_error"
    b_dir,           \* output_dir exists
    b_pyc,           \* output_dir/image_processor.pyc
    b_zip,           \* output_dir/app_modules.zip
    b_zip0,          \* b_zip when the run started
    b_dir0,          \* b_dir when the run started
    b_exit,          \* the exit code, -1 while running
    b_out            \* what the run printed

procVars == <<PIL_AVAILABLE, font_cache, installed, clock, dirs, outfiles, pc, calls,
              input_path, output_dir, kind, imgs, img, new_img, original,
              output_path, saved, exc, resp, raised, fs0, prev>>
buildVars == <<b_pc, builds, b_input, b_dir, b_pyc, b_zip, b_zip0, b_dir0,
               b_exit, b_out>>
vars == <<procVars, buildVars>>

(***************************************************************************)
(* Values and pure helpers of process.py.                                  *)
(***************************************************************************)
Max(a, b) == IF a >= b THEN a ELSE b
Min(a, b) == IF a <= b THEN a ELSE b

\* A Python value as it arrives from json.loads: its type and its str() form.
PyNone == [t |-> "none", s |-> "None"]
PyStr(s) == [t |-> "str", s |-> s]
PyInt == [t |-> "int", s |-> "5"]
PyList == [t |-> "list", s |-> "[1]"]

\* The path strings the model feeds in.
PathStrings == {"a.png", "a.PNG", "a.txt", "a"}
\* The values of "input_image_path" the model feeds in.
PathValues == {PyNone, PyStr(""), PyInt, PyList} \cup {PyStr(p) : p \in PathStrings}
\* The values of "output_dir" the model feeds in.
DirValues == {PyNone, PyStr("out"), PyInt}

\* Python truthiness, as "if not path" / "if not input_path" test it.
Truthy(v) ==
    CASE v.t = "none" -> FALSE
      [] v.t = "str" -> v.s # ""
      [] OTHER -> TRUE

\* pathlib: Path(p).suffix
Suffix(p) ==
    CASE p = "a.png" -> ".png"
      [] p = "a.PNG" -> ".PNG"
      [] p = "a.txt" -> ".txt"
      [] OTHER -> ""

\* pathlib: Path(p).stem
Stem(p) ==
    CASE p \in {"a.png", "a.PNG", "a.txt", "a"} -> "a"
      [] OTHER -> ""

\* str.lower() on the suffixes above
Lower(s) == IF s = ".PNG" THEN ".png" ELSE s

\* The file contents Image.open can meet: color modes and (width, height).
Modes == {"RGBA", "LA", "P", "RGB", "L"}
Sizes == {<<640, 200>>, <<100, 150>>}

ProcessingError == [type |-> "OSError", msg |-> "io"]
NoException == [type |-> "none", msg |-> ""]

EmptyCache == [s \in {} |-> ""]
NoResponse == [status |-> "none"]
NoPath == [dir |-> "", stem |-> "", ts |-> [hms |-> 0, f |-> 0]]

(***************************************************************************)
(* ImageProcessor._get_font                                                *)
(***************************************************************************)
\* The loop over font_paths: the first face truetype can load, else the default.
LoadFont(fonts) ==
    IF font_paths[1] \in fonts THEN font_paths[1]
    ELSE IF font_paths[2] \in fonts THEN font_paths[2]
    ELSE "default"

\* "Limit cache size": the cache as it is just before the new entry goes in.
LimitCache(cache) ==
    IF Cardinality(DOMAIN cache) > CACHE_LIMIT THEN EmptyCache ELSE cache

\* The cache after _get_font(size).
get_font(cache, size, fonts) ==
    IF size \in DOMAIN cache THEN cache
    ELSE LET font == LoadFont(fonts)
             kept == LimitCache(cache)
         IN  [s \in DOMAIN kept \cup {size} |-> IF s = size THEN font ELSE kept[s]]

\* font_size = max(24, min(300, int(height * 0.10)))
FontSize(height) == Max(MIN_FONT, Min(MAX_FONT, height \div 10))

(***************************************************************************)
(* ImageProcessor._validate_input                                          *)
(***************************************************************************)
Invalid(prefix, arg) == [raises |-> "none", valid |-> FALSE, err |-> <<prefix, arg>>]
Valid == [raises |-> "none", valid |-> TRUE, err |-> <<"", "">>]
Raises(type) == [raises |-> type, valid |-> FALSE, err |-> <<"", "">>]

\* validate_input with the extension tested first
validate_input_ext_first(path, k) ==
    IF ~Truthy(path) THEN Invalid("Empty path", "")
    ELSE IF path.t = "list" THEN Raises("TypeError")
    ELSE IF path.t = "str" /\ Lower(Suffix(path.s)) \notin SUPPORTED_FORMATS
         THEN Invalid("Unsupported format", Lower(Suffix(path.s)))
    ELSE IF k = "none" THEN Invalid("File not found", path.s)
    ELSE IF k # "file" THEN Invalid("Not a file", path.s)
    ELSE IF path.t # "str" THEN Raises("TypeError")
    ELSE Valid

\* validate_input without the os.path.exists test
validate_input_no_exists(path, k) ==
    IF ~Truthy(path) THEN Invalid("Empty path", "")
    ELSE IF path.t = "list" THEN Raises("TypeError")
    ELSE IF k # "file" THEN Invalid("Not a file", path.s)
    ELSE IF path.t # "str" THEN Raises("TypeError")
    ELSE LET ext == Lower(Suffix(path.s))
         IN  IF ext \notin SUPPORTED_FORMATS
             THEN Invalid("Unsupported format", ext)
             ELSE Valid

\* k is what the filesystem holds at path.  os.path.exists raises TypeError
\* for a list and takes an integer as a file descriptor; Path() of an
\* integer raises TypeError.
validate_input(path, k) ==
    IF ~Truthy(path) THEN Invalid("Empty path", "")
    ELSE IF path.t = "list" THEN Raises("TypeError")
    ELSE IF k = "none" THEN Invalid("File not found", path.s)
    ELSE IF k # "file" THEN Invalid("Not a file", path.s)
    ELSE IF path.t # "str" THEN Raises("TypeError")
    ELSE LET ext == Lower(Suffix(path.s))
         IN  IF ext \notin SUPPORTED_FORMATS
             THEN Invalid("Unsupported format", ext)
             ELSE Valid

(***************************************************************************)
(* ImageProcessor._generate_output_path                                    *)
(***************************************************************************)
\* output_dir = tempfile.gettempdir() when None
OutputDir(dir) == IF dir.t = "none" THEN "tmp" ELSE dir.s

\* strftime("%Y%m%d_%H%M%S_%f") of a clock reading: fixed-width fields down to
\* the microsecond, so two readings format alike exactly when they are equal.
Timestamp(now) == [hms |-> now \div USEC_PER_SEC, f |-> now % USEC_PER_SEC]

\* os.path.join(output_dir, "processed_{}_{}.png".format(name, ts))
generate_output_path(path, dir, now) ==
    [dir |-> OutputDir(dir), stem |-> Stem(path.s), ts |-> Timestamp(now)]

(***************************************************************************)
(* The dicts process and process_image_json return.                        *)
(***************************************************************************)
ErrorResult(err) == [status |-> "error", error |-> err]

PillowMissing == ErrorResult(<<"Pillow not available", "No module named PIL">>)

\* the error dict of the except block without its "error_type"
ProcessingFailedNoType(e) ==
    [status |-> "error", error |-> <<"Processing failed", e.msg>>]

ProcessingFailed(e) ==
    [status |-> "error", error |-> <<"Processing failed", e.msg>>,
     error_type |-> e.type]

Success(path, outp, orig, now) ==
    [status |-> "success", output_image_path |-> outp,
     metadata |-> [input_path |-> path.s, original_size |-> orig.size,
                   original_mode |-> orig.mode, processed_at |-> now]]

(***************************************************************************)
(* Pillow calls that make a new image, by what they do to size and mode.   *)
(***************************************************************************)
NewImage(size, mode) == [size |-> size, mode |-> mode, closes |-> 0]
\* a background made (height, width)
BackgroundTransposed(im) == NewImage(<<im.size[2], im.size[1]>>, "RGB")

\* bg = Image.new('RGB', img.size, (255, 255, 255))
Background(im) == NewImage(im.size, "RGB")
\* img.convert('RGB')
Converted(im) == NewImage(im.size, "RGB")
\* enhancer.enhance(f), img.filter(kernel): a new image of the same size, mode
Filtered(im) == NewImage(im.size, im.mode)

Close(seq, i) == [seq EXCEPT ![i].closes = @ + 1]
Unclosed == {i \in DOMAIN imgs : imgs[i].closes = 0}

(***************************************************************************)
(* process_image_json and ImageProcessor.process, step by step.            *)
(***************************************************************************)
\* The JSON texts the model feeds in: what json.loads makes of each.
\* "invalid" does not parse; "null", "array", "number" and "string" parse to a
\* value that is no dict; "object" parses to a dict with the two fields
\* (PyNone for a field that is absent or null).
Documents ==
    [kind : {"invalid", "null", "array", "number", "string"},
     input_image_path : {PyNone}, output_dir : {PyNone}]
    \cup [kind : {"object"}, input_image_path : PathValues, output_dir : DirValues]

\* What stays as it is while an invocation only moves on.
Locals == <<input_path, output_dir, kind, fs0, prev, calls>>
Env == <<PIL_AVAILABLE, installed, clock>>

\* An invocation ends: the response is returned, or the exception escapes.
Return(r) ==
    /\ resp' = r
    /\ raised' = "none"
    /\ pc' = "done"

Escape(type) ==
    /\ resp' = NoResponse
    /\ raised' = type
    /\ pc' = "done"

\* A statement inside the try block raises.
Raise(e) ==
    /\ exc' = e
    /\ pc' = "except"

\* process_image_json, lines 248-260, up to the call of process.
process_image_json(doc, k) ==
    /\ UNCHANGED buildVars
    /\ pc \in {"idle", "done"}
    /\ calls < MaxCalls
    /\ calls' = calls + 1
    /\ prev' = IF pc = "done" /\ resp.status = "success"
               THEN [input_path |-> input_path, output_dir |-> output_dir,
                     output_image_path |-> resp.output_image_path]
               ELSE prev
    /\ input_path' = doc.input_image_path
    /\ output_dir' = doc.output_dir
    /\ kind' = k
    /\ fs0' = <<dirs, outfiles>>
    /\ imgs' = <<>>
    /\ img' = 0
    /\ new_img' = 0
    /\ original' = [size |-> <<0, 0>>, mode |-> ""]
    /\ output_path' = NoPath
    /\ saved' = <<0, 0>>
    /\ exc' = NoException
    /\ \/ /\ doc.kind = "invalid"
          /\ Return(ErrorResult(<<"Invalid JSON", "JSONDecodeError">>))
       \/ /\ doc.kind \in {"null", "array", "number", "string"}
          /\ Escape("AttributeError")
       \/ /\ doc.kind = "object"
          /\ ~Truthy(doc.input_image_path)
          /\ Return(ErrorResult(<<"Missing input_image_path", "">>))
       \/ /\ doc.kind = "object"
          /\ Truthy(doc.input_image_path)
          /\ resp' = NoResponse
          /\ raised' = "none"
          /\ pc' = "process"
    /\ UNCHANGED <<Env, font_cache, dirs, outfiles>>

\* process, lines 106-114: the checks before the try block.
process_validate ==
    /\ UNCHANGED buildVars
    /\ pc = "process"
    /\ LET v == validate_input(input_path, kind)
       IN  IF ~PIL_AVAILABLE THEN Return(PillowMissing)
           ELSE IF v.raises # "none" THEN Escape(v.raises)
           ELSE IF ~v.valid THEN Return(ErrorResult(v.err))
           ELSE /\ pc' = "open"
                /\ UNCHANGED <<resp, raised>>
    /\ UNCHANGED <<Env, Locals, font_cache, dirs, outfiles, imgs, img, new_img,
                   original, output_path, saved, exc>>

\* lines 119-121: img = Image.open(input_path)
process_open ==
    /\ UNCHANGED buildVars
    /\ pc = "open"
    /\ \/ \E size \in Sizes, mode \in Modes :
            /\ imgs' = <<NewImage(size, mode)>>
            /\ img' = 1
            /\ original' = [size |-> size, mode |-> mode]
            /\ pc' = "convert"
            /\ exc' = exc
       \/ /\ Raise(ProcessingError)
          /\ UNCHANGED <<imgs, img, original>>
    /\ UNCHANGED <<Env, Locals, font_cache, dirs, outfiles, new_img, output_path, saved,
                   resp, raised>>

\* lines 124-125, 134-135: the new RGB image, when the mode asks for one
process_convert ==
    /\ UNCHANGED buildVars
    /\ pc = "convert"
    /\ \/ /\ imgs[img].mode \in {"RGBA", "LA", "P"}
          /\ imgs' = Append(imgs, Background(imgs[img]))
          /\ new_img' = Len(imgs) + 1
          /\ pc' = "paste"
          /\ exc' = exc
       \/ /\ imgs[img].mode \notin {"RGBA", "LA", "P", "RGB"}
          /\ imgs' = Append(imgs, Converted(imgs[img]))
          /\ new_img' = Len(imgs) + 1
          /\ pc' = "convert_close"
          /\ exc' = exc
       \/ /\ imgs[img].mode = "RGB"
          /\ pc' = "sharpness"
          /\ UNCHANGED <<imgs, new_img, exc>>
       \/ /\ imgs[img].mode # "RGB"
          /\ Raise(ProcessingError)
          /\ UNCHANGED <<imgs, new_img>>
    /\ UNCHANGED <<Env, Locals, font_cache, dirs, outfiles, img, original,
                   output_path, saved, resp, raised>>

\* lines 126-131: bg.paste(img, mask=img.split()[..]) reads the pixel data
process_paste ==
    /\ UNCHANGED buildVars
    /\ pc = "paste"
    /\ \/ /\ pc' = "convert_close"
          /\ exc' = exc
       \/ Raise(ProcessingError)
    /\ UNCHANGED <<Env, Locals, font_cache, dirs, outfiles, imgs, img, new_img,
                   original, output_path, saved, resp, raised>>

\* The filters in their order, and where each one's close-and-assign leads.
CloseOf(at) ==
    CASE at = "sharpness" -> "sharpness_close"
      [] at = "edge_enhance" -> "edge_enhance_close"
      [] at = "contrast" -> "contrast_close"
      [] at = "smooth" -> "smooth_close"

After(at) ==
    CASE at = "convert_close" -> "sharpness"
      [] at = "sharpness_close" -> "edge_enhance"
      [] at = "edge_enhance_close" -> "contrast"
      [] at = "contrast_close" -> "smooth"
      [] at = "smooth_close" -> "overlay"

\* lines 141-142, 147, 152-153, 158: new_img = <filter>(img)
process_filter ==
    /\ UNCHANGED buildVars
    /\ pc \in {"sharpness", "edge_enhance", "contrast", "smooth"}
    /\ \/ /\ imgs' = Append(imgs, Filtered(imgs[img]))
          /\ new_img' = Len(imgs) + 1
          /\ pc' = CloseOf(pc)
          /\ exc' = exc
       \/ /\ Raise(ProcessingError)
          /\ UNCHANGED <<imgs, new_img>>
    /\ UNCHANGED <<Env, Locals, font_cache, dirs, outfiles, img, original,
                   output_path, saved, resp, raised>>

\* lines 132-133, 136-137, 143-144, 148-149, 154-155, 159-160:
\* img.close(); img = new_img
process_close_old ==
    /\ UNCHANGED buildVars
    /\ pc \in {"convert_close", "sharpness_close", "edge_enhance_close",
               "contrast_close", "smooth_close"}
    /\ imgs' = Close(imgs, img)
    /\ img' = new_img
    /\ pc' = After(pc)
    /\ UNCHANGED <<Env, Locals, font_cache, dirs, outfiles, new_img, original,
                   output_path, saved, exc, resp, raised>>

\* lines 163-188: the font for 10% of the height, then the label drawn on img
process_overlay ==
    /\ UNCHANGED buildVars
    /\ pc = "overlay"
    /\ font_cache' = get_font(font_cache, FontSize(imgs[img].size[2]), installed)
    /\ \/ /\ pc' = "output_path"
          /\ exc' = exc
       \/ Raise(ProcessingError)
    /\ UNCHANGED <<Env, Locals, dirs, outfiles, imgs, img, new_img, original,
                   output_path, saved, resp, raised>>

\* What datetime.now() can read when it read last before: a later time; the
\* same time, when less than the clock's granularity has passed; an earlier
\* time, when the wall clock was set back in between (an NTP step, the hour
\* that local time repeats at the end of daylight saving).
Readings(last) == 0 .. MaxClock

\* line 191 and lines 92-99: makedirs, then the name from the stem and the clock
process_output_path ==
    /\ UNCHANGED buildVars
    /\ pc = "output_path"
    /\ \/ /\ output_dir.t \in {"none", "str"}
          /\ dirs' = dirs \cup {OutputDir(output_dir)}
          /\ \E now \in Readings(clock) :
                /\ clock' = now
                /\ output_path' = generate_output_path(input_path, output_dir, now)
          /\ pc' = "save"
          /\ exc' = exc
       \/ /\ output_dir.t \notin {"none", "str"}
          /\ Raise([type |-> "TypeError", msg |-> "expected str"])
          /\ UNCHANGED <<dirs, output_path, clock>>
       \/ /\ output_dir.t \in {"none", "str"}
          /\ Raise(ProcessingError)
          /\ UNCHANGED <<dirs, output_path, clock>>
    /\ UNCHANGED <<PIL_AVAILABLE, installed, Locals, font_cache, outfiles, imgs, img, new_img,
                   original, saved, resp, raised>>

\* lines 192-194: img.save(output_path, format='PNG'); os.path.getsize
process_save ==
    /\ UNCHANGED buildVars
    /\ pc = "save"
    /\ \/ /\ outfiles' = outfiles \cup {output_path}
          /\ saved' = imgs[img].size
          /\ pc' = "return"
          /\ exc' = exc
       \/ /\ Raise(ProcessingError)
          /\ UNCHANGED <<outfiles, saved>>
    /\ UNCHANGED <<Env, Locals, font_cache, dirs, imgs, img, new_img, original,
                   output_path, resp, raised>>

\* lines 197-213, 221-228 and 262: close, return the success dict; the
\* finally block finds img None.
process_return ==
    /\ UNCHANGED buildVars
    /\ pc = "return"
    /\ imgs' = Close(imgs, img)
    /\ img' = 0
    /\ Return(Success(input_path, output_path, original, clock))
    /\ UNCHANGED <<Env, Locals, font_cache, dirs, outfiles, new_img, original,
                   output_path, saved, exc>>

\* lines 215-228 and 262: the error dict; the finally block closes img
process_except ==
    /\ UNCHANGED buildVars
    /\ pc = "except"
    /\ imgs' = IF img # 0 THEN Close(imgs, img) ELSE imgs
    /\ Return(ProcessingFailed(exc))
    /\ UNCHANGED <<Env, Locals, font_cache, dirs, outfiles, img, new_img,
                   original, output_path, saved, exc>>

InitProcess ==
    /\ PIL_AVAILABLE \in BOOLEAN
    /\ font_cache = EmptyCache
    /\ installed \in SUBSET {font_paths[1], font_paths[2]}
    /\ clock = 0
    /\ dirs = {"tmp"}
    /\ outfiles = {}
    /\ pc = "idle"
    /\ calls = 0
    /\ input_path = PyNone
    /\ output_dir = PyNone
    /\ kind = "none"
    /\ imgs = <<>>
    /\ img = 0
    /\ new_img = 0
    /\ original = [size |-> <<0, 0>>, mode |-> ""]
    /\ output_path = NoPath
    /\ saved = <<0, 0>>
    /\ exc = NoException
    /\ resp = NoResponse
    /\ raised = "none"
    /\ fs0 = <<{"tmp"}, {}>>
    /\ prev = [input_path |-> PyNone, output_dir |-> PyNone,
               output_image_path |-> NoPath]

NextProcess ==
    \/ \E doc \in Documents :
          \E k \in (IF doc.kind = "object" /\ Truthy(doc.input_image_path)
                    THEN {"none", "file", "dir"} ELSE {"none"}) :
             process_image_json(doc, k)
    \/ process_validate
    \/ process_open
    \/ process_convert
    \/ process_paste
    \/ process_filter
    \/ process_close_old
    \/ process_overlay
    \/ process_output_path
    \/ process_save
    \/ process_return
    \/ process_except

(***************************************************************************)
(* ImageProcessor._get_font called directly, with any size of the range.   *)
(***************************************************************************)
FontSizes == MIN_FONT .. (MIN_FONT + NumSizes - 1)

GetFont(size) ==
    /\ UNCHANGED buildVars
    /\ pc = "idle"
    /\ font_cache' = get_font(font_cache, size, installed)
    /\ UNCHANGED <<PIL_AVAILABLE, installed, clock, dirs, outfiles, pc, calls,
                   input_path, output_dir, kind, imgs, img, new_img, original,
                   output_path, saved, exc, resp, raised, fs0, prev>>

NextFont == \E size \in FontSizes : GetFont(size)

(***************************************************************************)
(* build_assets.py                                                         *)
(***************************************************************************)
pyc_filename == "image_processor.pyc"

NoZip == [kind |-> "none", entries |-> {}]
\* an archive some earlier tool left there
StaleZip == [kind |-> "file", entries |-> {"old_module.pyc", pyc_filename}]
\* a directory of that name
DirZip == [kind |-> "dir", entries |-> {}]
Archive(names) == [kind |-> "file", entries |-> names]

Exited == {"exit_ok", "exit_input", "exit_compile", "exit_zip", "exit_cleanup"}

\* A run starts.  The first run finds the output directory in any state; a
\* later run finds what the earlier ones left.
build_start(inp, d, pyc, zip) ==
    /\ UNCHANGED procVars
    /\ b_pc \in {"idle"} \cup Exited
    /\ builds < MaxBuilds
    /\ builds' = builds + 1
    /\ b_input' = inp
    /\ IF builds = 0
       THEN /\ b_dir' = d
            /\ b_pyc' = IF d THEN pyc ELSE "none"
            /\ b_zip' = IF d THEN zip ELSE NoZip
       ELSE UNCHANGED <<b_dir, b_pyc, b_zip>>
    /\ b_dir0' = b_dir'
    /\ b_zip0' = b_zip'
    /\ b_exit' = -1
    /\ b_out' = <<>>
    /\ b_pc' = "check"

\* build_check_input with the output directory made before the input is tested
build_check_input_mkdir_first ==
    /\ UNCHANGED procVars
    /\ b_pc = "check"
    /\ b_dir' = TRUE
    /\ IF b_input = "missing"
       THEN /\ b_out' = Append(b_out, "Error: Input file does not exist")
            /\ b_exit' = 1
            /\ b_pc' = "exit_input"
       ELSE /\ b_pc' = "compile"
            /\ UNCHANGED <<b_out, b_exit>>
    /\ UNCHANGED <<builds, b_input, b_pyc, b_zip, b_zip0, b_dir0>>

\* lines 12-19: the input must exist; then the output directory is made
build_check_input ==
    /\ UNCHANGED procVars
    /\ b_pc = "check"
    /\ IF b_input = "missing"
       THEN /\ b_out' = Append(b_out, "Error: Input file does not exist")
            /\ b_exit' = 1
            /\ b_pc' = "exit_input"
            /\ UNCHANGED b_dir
       ELSE /\ b_dir' = TRUE
            /\ b_pc' = "compile"
            /\ UNCHANGED <<b_out, b_exit>>
    /\ UNCHANGED <<builds, b_input, b_pyc, b_zip, b_zip0, b_dir0>>

\* lines 23-31: py_compile.compile(..., doraise=True).  It refuses a cfile
\* that is not a regular file, fails on a source that does not compile, and
\* can fail to write the cfile; it writes the cfile only when it compiled.
build_compile ==
    /\ UNCHANGED procVars
    /\ b_pc = "compile"
    /\ \/ /\ b_input = "valid"
          /\ b_pyc # "dir"
          /\ b_pyc' = "compiled"
          /\ b_out' = Append(b_out, "Compiling")
          /\ b_pc' = "zip"
          /\ UNCHANGED b_exit
       \/ /\ b_input # "valid" \/ b_pyc = "dir"
          /\ b_out' = b_out \o <<"Compiling", "Compilation failed">>
          /\ b_exit' = 1
          /\ b_pc' = "exit_compile"
          /\ UNCHANGED b_pyc
       \/ /\ b_input = "valid"
          /\ b_pyc # "dir"
          /\ b_out' = b_out \o <<"Compiling", "Compilation failed">>
          /\ b_exit' = 1
          /\ b_pc' = "exit_compile"
          /\ UNCHANGED b_pyc
    /\ UNCHANGED <<builds, b_input, b_dir, b_zip, b_zip0, b_dir0>>

\* lines 34-39: ZipFile(zip_filename, 'w') truncates or creates the archive,
\* zf.write adds the one entry, leaving the with block writes the directory.
\* Nothing catches what these raise: the interpreter prints the traceback
\* and exits with code 1.
build_zip ==
    /\ UNCHANGED procVars
    /\ b_pc = "zip"
    /\ \/ /\ b_zip.kind # "dir"
          /\ b_zip' = Archive({pyc_filename})
          /\ b_out' = Append(b_out, "Creating")
          /\ b_pc' = "cleanup"
          /\ UNCHANGED b_exit
       \/ /\ b_zip.kind = "dir"
          /\ b_out' = b_out \o <<"Creating", "Traceback">>
          /\ b_exit' = 1
          /\ b_pc' = "exit_zip"
          /\ UNCHANGED b_zip
       \/ /\ b_zip.kind = "file"
          /\ b_out' = b_out \o <<"Creating", "Traceback">>
          /\ b_exit' = 1
          /\ b_pc' = "exit_zip"
          /\ UNCHANGED b_zip
       \/ /\ b_zip.kind # "dir"
          /\ b_zip' = Archive({})
          /\ b_out' = b_out \o <<"Creating", "Traceback">>
          /\ b_exit' = 1
          /\ b_pc' = "exit_zip"
    /\ UNCHANGED <<builds, b_input, b_dir, b_pyc, b_zip0, b_dir0>>

\* lines 42-45: the intermediate file is unlinked; unlink can raise
build_cleanup ==
    /\ UNCHANGED procVars
    /\ b_pc = "cleanup"
    /\ \/ /\ b_pyc' = "none"
          /\ b_out' = Append(b_out, "Success! Created app_modules.zip")
          /\ b_exit' = 0
          /\ b_pc' = "exit_ok"
       \/ /\ b_out' = Append(b_out, "Traceback")
          /\ b_exit' = 1
          /\ b_pc' = "exit_cleanup"
          /\ UNCHANGED b_pyc
    /\ UNCHANGED <<builds, b_input, b_dir, b_zip, b_zip0, b_dir0>>

InitBuild ==
    /\ b_pc = "idle"
    /\ builds = 0
    /\ b_input = "missing"
    /\ b_dir = FALSE
    /\ b_pyc = "none"
    /\ b_zip = NoZip
    /\ b_zip0 = NoZip
    /\ b_dir0 = FALSE
    /\ b_exit = -1
    /\ b_out = <<>>

NextBuild ==
    \/ \E inp \in {"missing", "valid", "syntax_error"}, d \in BOOLEAN,
          pyc \in {"none", "stale", "dir"}, zip \in {NoZip, StaleZip, DirZip} :
            build_start(inp, d, pyc, zip)
    \/ build_check_input
    \/ build_compile
    \/ build_zip
    \/ build_cleanup

(***************************************************************************)
(* The specifications.                                                     *)
(***************************************************************************)
Init == InitProcess /\ InitBuild

\* process_image_json invoked again and again on one processor
Next == NextProcess
Spec == Init /\ [][Next]_vars

\* _get_font driven with many sizes
SpecFont == Init /\ [][NextFont]_vars

\* build_assets run on one output directory
SpecBuild == Init /\ [][NextBuild]_vars

(***************************************************************************)
(* The claims.                                                             *)
(***************************************************************************)
Printed(msg) == \E i \in DOMAIN b_out : b_out[i] = msg
Returned == pc = "done" /\ raised = "none"
\* a non-empty path string
IsPath(v) == v.t = "str" /\ v.s # ""
\* a non-empty path string whose extension is not a supported one
Unsupported(v) == IsPath(v) /\ Lower(Suffix(v.s)) \notin SUPPORTED_FORMATS

\* C1: after any sequence of _get_font calls the font cache holds at most
\* CACHE_LIMIT (10) entries.  The code tests the length before it inserts, and
\* tests "> 10": a cache of 10 entries takes an 11th.
C1_CacheWithinLimit == Cardinality(DOMAIN font_cache) <= CACHE_LIMIT

\* What the code does keep: never more than CACHE_LIMIT + 1 entries.
CacheWithinLimitPlusOne == Cardinality(DOMAIN font_cache) <= CACHE_LIMIT + 1

\* C2: two successive successful invocations on the same input path and the
\* same output directory return different output paths, whatever the clock
\* read in each.
C2_DistinctOutputPaths ==
    ( /\ Returned
      /\ resp.status = "success"
      /\ prev.output_image_path # NoPath
      /\ prev.input_path = input_path
      /\ prev.output_dir = output_dir )
    => resp.output_image_path # prev.output_image_path

\* C3, as claimed: a non-empty path with an unsupported extension gets the
\* "Unsupported format" error whether or not a regular file is there.
C3_UnsupportedWhateverExists ==
    (pc = "done" /\ Unsupported(input_path))
    => /\ raised = "none"
       /\ resp.status = "error"
       /\ resp.error[1] = "Unsupported format"

\* C3, amended: a non-empty path with an unsupported extension always gets
\* status "error"; the message is "Unsupported format: <lower-cased suffix>"
\* exactly when Pillow is available and a regular file is at the path.  With
\* nothing there it is "File not found", with a non-file "Not a file", and
\* without Pillow "Pillow not available".
C3_UnsupportedFormat ==
    (pc = "done" /\ Unsupported(input_path))
    => /\ raised = "none"
       /\ resp.status = "error"
       /\ resp.error =
            IF ~PIL_AVAILABLE THEN PillowMissing.error
            ELSE IF kind = "none" THEN <<"File not found", input_path.s>>
            ELSE IF kind = "dir" THEN <<"Not a file", input_path.s>>
            ELSE <<"Unsupported format", Lower(Suffix(input_path.s))>>

C3_Witness ==
    /\ pc = "done"
    /\ input_path = PyStr("a.txt")
    /\ kind = "file"
    /\ resp.status = "error"
    /\ resp.error = <<"Unsupported format", ".txt">>

\* C4, as claimed: a non-empty path at which nothing exists gets status
\* "error" with a "File not found" message, and the filesystem is unchanged.
C4_FileNotFoundAlways ==
    (pc = "done" /\ IsPath(input_path) /\ kind = "none")
    => /\ raised = "none"
       /\ resp.status = "error"
       /\ resp.error[1] = "File not found"
       /\ <<dirs, outfiles>> = fs0

\* C4, amended: when Pillow is available, a non-empty path at which nothing
\* exists gets status "error" with the message "File not found: <path>";
\* without Pillow the message is "Pillow not available".  Either way the call
\* leaves the filesystem as it was: no output file, no output directory made.
C4_FileNotFound ==
    (pc = "done" /\ IsPath(input_path) /\ kind = "none")
    => /\ raised = "none"
       /\ resp.status = "error"
       /\ resp.error = IF PIL_AVAILABLE
                       THEN <<"File not found", input_path.s>>
                       ELSE PillowMissing.error
       /\ <<dirs, outfiles>> = fs0

C4_Witness ==
    /\ pc = "done"
    /\ input_path = PyStr("a.png")
    /\ kind = "none"
    /\ output_dir = PyStr("out")
    /\ resp.status = "error"
    /\ resp.error = <<"File not found", "a.png">>
    /\ "out" \notin dirs

\* C5: a run of build_assets on a valid source file ends, however its zip
\* and cleanup steps end and whatever the output directory held, with
\* app_modules.zip holding exactly the one entry image_processor.pyc and no
\* image_processor.pyc left in the output directory.  Stated for the runs
\* that compiled the source; the claim says it of every run on a valid source.
C5_OneEntryNoLeftover ==
    (b_pc \in Exited \ {"exit_compile"} /\ b_input = "valid")
    => /\ b_zip = Archive({pyc_filename})
       /\ b_pyc = "none"

\* What the code does give: the same, for the runs that end with "Success!".
OneEntryNoLeftoverOnSuccess ==
    (b_pc = "exit_ok")
    => /\ b_input = "valid"
       /\ b_exit = 0
       /\ b_zip = Archive({pyc_filename})
       /\ b_pyc = "none"

C7_SizePreserved ==
    /\ \A i \in DOMAIN imgs : imgs[i].size = imgs[1].size
    /\ (Returned /\ resp.status = "success")
       => /\ resp.output_image_path \in outfiles
          /\ saved = imgs[1].size
          /\ resp.metadata.original_size = saved

C7_Witness ==
    /\ Returned
    /\ resp.status = "success"
    /\ resp.metadata.original_mode = "RGBA"
    /\ saved = <<640, 200>>

\* C8: no exception escapes process_image_json: every invocation ends with a
\* response.
C8_NoExceptionEscapes == pc = "done" => raised = "none" /\ resp.status \in {"success", "error"}

\* What the code does give: an exception raised inside the try block of
\* process is reported with its string form and its type name.
CaughtIsReported ==
    (pc = "done" /\ exc # NoException) => resp = ProcessingFailed(exc) /\ raised = "none"

\* C9: when process returns, every image it opened or created has been
\* closed.  (The claim also says that at most one image is unclosed at any
\* point, which OneAtATime states, and that none is closed twice, which
\* NoDoubleClose states.)
C9_ReleasedOnReturn == pc = "done" => Unclosed = {}

OneAtATime == Cardinality(Unclosed) <= 1
NoDoubleClose == \A i \in DOMAIN imgs : imgs[i].closes <= 1
\* The images the code does release: all but a background whose paste raised.
ReleasedButBackground ==
    pc = "done" => \A i \in Unclosed : i = new_img /\ imgs[1].mode \in {"RGBA", "LA", "P"}

\* C10: a run that finds no input exits non-zero with a message and has not
\* made the output directory; a run whose compilation fails exits non-zero
\* with a message and has left app_modules.zip as it was.
C10_FailureChangesNothing ==
    /\ (b_pc \in Exited /\ b_input = "missing") => b_pc = "exit_input"
    /\ (b_pc \in Exited /\ b_input = "syntax_error") => b_pc = "exit_compile"
    /\ b_pc = "exit_input" =>
         /\ b_exit # 0
         /\ Printed("Error: Input file does not exist")
         /\ b_dir = b_dir0
         /\ b_zip = b_zip0
    /\ b_pc = "exit_compile" =>
         /\ b_exit # 0
         /\ Printed("Compilation failed")
         /\ b_zip = b_zip0

C10_Witness ==
    /\ b_pc = "exit_compile"
    /\ b_input = "syntax_error"
    /\ b_zip0 = StaleZip
    /\ b_zip = StaleZip

InputMissingReached ==
    /\ b_pc = "exit_input"
    /\ b_input = "missing"
    /\ ~b_dir0
    /\ ~b_dir

====
